---- MODULE Spec2Model ----
(***************************************************************************)
(* Model of ScriptObject (src/modules/models/script_models/scriptObject.ts) *)
(* : the two-phase lifecycle setup(script) / describeAsync() of one        *)
(* migration-task descriptor, its query resolution, multiselect expansion  *)
(* and field validation.                                                   *)
(*                                                                         *)
(* A query text is a sequence of tokens (SELECT f1 .. fn FROM obj [WHERE   *)
(* c1 .. cm]); parseQuery / composeQuery convert between the token form    *)
(* and the structured form.  A field of a parsed query is the object       *)
(* [field |-> name] built by getComposedField.                             *)
(***************************************************************************)
EXTENDS Integers, Sequences, FiniteSets, TLC

VARIABLES
    query,                  \* this.query (token sequence)
    deleteQuery,            \* this.deleteQuery (token sequence, <<>> is "")
    operation,              \* this.operation (string or numeric form)
    externalId,             \* this.externalId
    deleteOldData,          \* this.deleteOldData
    excludedFields,         \* this.excludedFields
    isExtraObject,          \* this.isExtraObject
    script,                 \* this.script ("undefined" or a script id)
    name,                   \* this.name
    sourceSObjectDescribe,  \* this.sourceSObjectDescribe
    targetSObjectDescribe,  \* this.targetSObjectDescribe
    originalExternalId,     \* this.originalExternalId
    parsedQuery,            \* this.parsedQuery
    parsedDeleteQuery,      \* this.parsedDeleteQuery
    multiselectPattern,     \* this.multiselectPattern
    env,                    \* the owning scripts: media kinds, person-account flag
    objectsMap,             \* script.objectsMap of every script
    siblings,               \* the other descriptors of the configuration
    pc,                     \* position of the describeAsync() call in flight
    lastCall,               \* outcome of the last finished call
    log,                    \* fetches issued, expansion / validation runs, warnings
    hist                    \* describe calls made and outcomes so far

vars == << query, deleteQuery, operation, externalId, deleteOldData, excludedFields,
           isExtraObject, script, name, sourceSObjectDescribe, targetSObjectDescribe,
           originalExternalId, parsedQuery, parsedDeleteQuery, multiselectPattern,
           env, objectsMap, siblings, pc, lastCall, log, hist >>

\* ------------------------------------------------------------------------
\* Bounds
\* ------------------------------------------------------------------------
MaxDescribeCalls == 2

\* ------------------------------------------------------------------------
\* JavaScript values
\* ------------------------------------------------------------------------
Undefined == [undefined |-> TRUE]

Range(s) == { s[i] : i \in DOMAIN s }

IndexOf(s, v) ==
    IF v \in Range(s) THEN CHOOSE i \in DOMAIN s : s[i] = v /\ \A j \in 1..(i-1) : s[j] # v
    ELSE -1

Count(s, v) == Cardinality({ i \in DOMAIN s : s[i] = v })

\* String.prototype.toLowerCase on the field names used here
toLowerCase(s) ==
    CASE s \in {"Id", "ID", "id"} -> "id"
      [] s \in {"all", "All", "ALL"} -> "all"
      [] s \in {"creatable_true", "Creatable_True"} -> "creatable_true"
      [] s = "creatable_false" -> "creatable_false"
      [] s \in {"custom_true", "Custom_True"} -> "custom_true"
      [] s = "Name" -> "name"
      [] s = "Phone" -> "phone"
      [] s = "Email" -> "email"
      [] s = "ParentId" -> "parentid"
      [] s = "OwnerId" -> "ownerid"
      [] s = "IsPersonAccount" -> "ispersonaccount"
      [] s = "Parent.Name" -> "parent.name"
      [] s = "Name;Phone" -> "name;phone"
      [] OTHER -> s

\* fieldName.split('_') on the multiselect keywords
split_(s) ==
    CASE s = "all_true" -> << "all", "true" >>
      [] s = "creatable_true" -> << "creatable", "true" >>
      [] s = "creatable_false" -> << "creatable", "false" >>
      [] s = "custom_true" -> << "custom", "true" >>
      [] OTHER -> << s >>

\* ------------------------------------------------------------------------
\* statics.ts: CONSTANTS, OPERATION, DATA_MEDIA_TYPE
\* ------------------------------------------------------------------------
MULTISELECT_SOQL_KEYWORDS == { "creatable_true", "creatable_false", "custom_true" }
SPECIAL_OBJECTS == { "Group" }
OBJECTS_NOT_TO_USE_IN_QUERY_MULTISELECT == { "User", "Group" }

OPERATION_Insert == 0
OPERATION_Update == 1
OPERATION_Upsert == 2
OPERATION_Readonly == 3
OPERATION_Delete == 4

\* OPERATION[name]: the numeric member of the enum, undefined for a key it lacks
OPERATION(str) ==
    CASE str = "Insert" -> [kind |-> "number", str |-> "", num |-> OPERATION_Insert]
      [] str = "Update" -> [kind |-> "number", str |-> "", num |-> OPERATION_Update]
      [] str = "Upsert" -> [kind |-> "number", str |-> "", num |-> OPERATION_Upsert]
      [] str = "Readonly" -> [kind |-> "number", str |-> "", num |-> OPERATION_Readonly]
      [] str = "Delete" -> [kind |-> "number", str |-> "", num |-> OPERATION_Delete]
      [] OTHER -> [kind |-> "undefined", str |-> "", num |-> -1]

StrOp(s) == [kind |-> "string", str |-> s, num |-> -1]
NumOp(n) == [kind |-> "number", str |-> "", num |-> n]

Medias == { "Org", "File" }

\* ------------------------------------------------------------------------
\* common.ts
\* ------------------------------------------------------------------------
\* Common.isComplexOr__rField: a composite (;-separated or $$-prefixed) or
\* relationship (dotted) field name
isComplexOr__rField(fieldName) ==
    fieldName \in { "Parent.Name", "Name;Phone", "$$Name$Phone" }

\* Common.getComplexField: the query form of a composite field name
getComplexField(fieldName) ==
    IF fieldName = "Name;Phone" THEN "$$Name$Phone" ELSE fieldName

\* Common.distinctArray(array, "field"): first occurrence of each key is kept
RECURSIVE distinctArray(_)
distinctArray(arr) ==
    IF arr = << >> THEN << >>
    ELSE LET init == distinctArray(SubSeq(arr, 1, Len(arr) - 1))
             last == arr[Len(arr)]
         IN  IF \E i \in DOMAIN init : init[i].field = last.field
             THEN init ELSE Append(init, last)

\* Common.removeBy(array, "field", value)
removeBy(arr, value) == SelectSeq(arr, LAMBDA f : f.field # value)

\* ------------------------------------------------------------------------
\* soql-parser-js
\* ------------------------------------------------------------------------
getComposedField(fieldName) == [field |-> fieldName]

FromPos(text) == IndexOf(text, "FROM")
WherePos(text) == IndexOf(text, "WHERE")

\* parseQuery accepts SELECT f+ FROM obj [WHERE c+]
isParsable(text) ==
    /\ Len(text) >= 4
    /\ text[1] = "SELECT"
    /\ Count(text, "SELECT") = 1
    /\ Count(text, "FROM") = 1
    /\ FromPos(text) >= 3
    /\ \/ /\ WherePos(text) = -1
          /\ Len(text) = FromPos(text) + 1
       \/ /\ Count(text, "WHERE") = 1
          /\ WherePos(text) = FromPos(text) + 2
          /\ Len(text) > WherePos(text)

parseQuery(text) ==
    [ fields  |-> [ i \in 1..(FromPos(text) - 2) |-> getComposedField(text[i + 1]) ],
      sObject |-> text[FromPos(text) + 1],
      where   |-> IF WherePos(text) = -1 THEN << >>
                  ELSE SubSeq(text, WherePos(text) + 1, Len(text)) ]

composeQuery(pq) ==
    << "SELECT" >> \o [ i \in 1..Len(pq.fields) |-> pq.fields[i].field ]
                   \o << "FROM", pq.sObject >>
                   \o (IF pq.where = << >> THEN << >> ELSE << "WHERE" >> \o pq.where)

\* Common.composeWhereClause(where, "IsPersonAccount", "false", "=", "BOOLEAN", "AND")
composeWhereClause(where) ==
    IF where = << >> THEN << "IsPersonAccount=false" >>
    ELSE where \o << "AND", "IsPersonAccount=false" >>

\* ------------------------------------------------------------------------
\* JavaScript loose comparison on the values the multiselect test handles
\* ------------------------------------------------------------------------
JsBool(b) == [t |-> "boolean", v |-> b, s |-> ""]
JsUndefined == [t |-> "undefined", v |-> FALSE, s |-> ""]
JsString(str) == [t |-> "string", v |-> FALSE, s |-> str]

\* a == b
JsLooseEq(a, b) ==
    IF a.t = b.t THEN a = b
    ELSE IF a.t = "undefined" \/ b.t = "undefined" THEN FALSE
    ELSE LET bo == IF a.t = "boolean" THEN a ELSE b
             st == IF a.t = "string" THEN a ELSE b
         IN  \/ bo.v /\ st.s = "1"
             \/ ~bo.v /\ st.s \in { "0", "" }

\* obj[prop] of an object whose own boolean properties are the function props
JsProp(props, prop) ==
    IF prop \in DOMAIN props THEN JsBool(props[prop]) ELSE JsUndefined

\* x.name where x is a string primitive
StringName(x) == JsUndefined

\* ------------------------------------------------------------------------
\* ScriptObject: getters
\* ------------------------------------------------------------------------
fieldsInQueryOf(pq) ==
    IF pq = Undefined THEN << >>
    ELSE [ i \in 1..Len(pq.fields) |-> pq.fields[i].field ]

fieldsInQuery == fieldsInQueryOf(parsedQuery)

isSpecialObject == name \in SPECIAL_OBJECTS

hasComplexExternalId == isComplexOr__rField(externalId)

complexExternalId == getComplexField(externalId)

complexOriginalExternalId == getComplexField(originalExternalId)

\* a descriptor that never counts as described
isDescribed_Never == FALSE

isDescribed == sourceSObjectDescribe # Undefined

\* an initialisation test keyed on the parsed query instead of the owner
isInitialized_ByParsedQuery == parsedQuery # Undefined

isInitialized == script # "undefined"

\* ------------------------------------------------------------------------
\* ScriptObject: static and private members
\* ------------------------------------------------------------------------
\* getOperation without the conversion of the string form
getOperation_Identity(op) == op

getOperation(op) ==
    IF op.kind = "string" THEN OPERATION(op.str) ELSE op

getStrOperation(op) ==
    IF op.kind # "string"
    THEN CASE op.num = OPERATION_Insert -> "Insert"
           [] op.num = OPERATION_Update -> "Update"
           [] op.num = OPERATION_Upsert -> "Upsert"
           [] op.num = OPERATION_Readonly -> "Readonly"
           [] op.num = OPERATION_Delete -> "Delete"
           [] OTHER -> "undefined"
    ELSE op.str

\* ___set of _parseQuery: self.multiselectPattern[parts[0]] = parts[1] == "true"
___set(pattern, fieldName) ==
    LET old == IF pattern = Undefined THEN << >> ELSE pattern
        parts == split_(fieldName)
    IN  [ p \in (DOMAIN old) \cup { parts[1] } |->
            IF p = parts[1] THEN (Len(parts) >= 2 /\ parts[2] = "true") ELSE old[p] ]

RECURSIVE _parseQueryLoop(_, _, _, _)
_parseQueryLoop(fields, i, acc, pattern) ==
    IF i > Len(fields) THEN [ fields |-> acc, multiselectPattern |-> pattern ]
    ELSE LET fieldName == toLowerCase(fields[i].field)
         IN  IF fieldName = "all"
             THEN _parseQueryLoop(fields, i + 1, acc, ___set(pattern, "all_true"))
             ELSE IF fieldName \in MULTISELECT_SOQL_KEYWORDS
             THEN _parseQueryLoop(fields, i + 1, acc, ___set(pattern, fieldName))
             ELSE IF fieldName # "id"
             THEN _parseQueryLoop(fields, i + 1,
                                  Append(acc, getComposedField(fields[i].field)), pattern)
             ELSE _parseQueryLoop(fields, i + 1, acc, pattern)

\* _parseQuery that keeps the listed fields as they are, Id not forced first
_parseQuery_Verbatim(text, pattern) ==
    LET parsed == parseQuery(text)
    IN  [ parsedQuery |-> parsed, multiselectPattern |-> pattern,
          query |-> composeQuery(parsed) ]

\* _parseQuery of a parsable text: the parsed query with Id forced first and the
\* multiselect keywords moved into the pattern, and the re-serialized text
_parseQuery(text, pattern) ==
    LET parsed == parseQuery(text)
        r == _parseQueryLoop(parsed.fields, 1, << getComposedField("Id") >>, pattern)
        pq == [ parsed EXCEPT !.fields = r.fields ]
    IN  [ parsedQuery |-> pq,
          multiselectPattern |-> r.multiselectPattern,
          query |-> composeQuery(pq) ]

\* a comparison whose negative form never reports a difference
___compare_NeverDiffers(fieldDescribeProperty, patternProperty, negative) ==
    IF ~negative
    THEN JsLooseEq(fieldDescribeProperty, patternProperty) \/ patternProperty.t = "undefined"
    ELSE FALSE

\* ___compare of _addOrRemmoveFields
___compare(fieldDescribeProperty, patternProperty, negative) ==
    IF ~negative
    THEN JsLooseEq(fieldDescribeProperty, patternProperty) \/ patternProperty.t = "undefined"
    ELSE ~JsLooseEq(fieldDescribeProperty, patternProperty)
         /\ fieldDescribeProperty.t # "undefined"

\* the test of lines 405-407 without the check against the fields already present
MultiselectMatches_NoPresenceCheck(pattern, fieldDescribe, fieldsInOriginalQuery) ==
    \/ ___compare(JsBool(~JsLooseEq(JsProp(pattern, "all"), JsString("undefined"))),
                  JsBool(JsLooseEq(JsProp(pattern, "all"), JsBool(TRUE))), FALSE)
    \/ ~ \E prop \in DOMAIN pattern :
           ___compare(JsProp(fieldDescribe.props, prop), JsProp(pattern, prop), TRUE)

\* the test of lines 405-407 on one field of the snapshot
MultiselectMatches(pattern, fieldDescribe, fieldsInOriginalQuery) ==
    /\ \/ ___compare(JsBool(~JsLooseEq(JsProp(pattern, "all"), JsString("undefined"))),
                     JsBool(JsLooseEq(JsProp(pattern, "all"), JsBool(TRUE))), FALSE)
       \/ ~ \E prop \in DOMAIN pattern :
              ___compare(JsProp(fieldDescribe.props, prop), JsProp(pattern, prop), TRUE)
    /\ ___compare(JsBool(IndexOf(fieldsInOriginalQuery, fieldDescribe.name) < 0),
                  JsBool(TRUE), FALSE)

RECURSIVE MultiselectLoop(_, _, _, _, _)
MultiselectLoop(fieldsMap, i, acc, pattern, fieldsInOriginalQuery) ==
    IF i > Len(fieldsMap) THEN acc
    ELSE LET fieldDescribe == fieldsMap[i]
             push == /\ MultiselectMatches(pattern, fieldDescribe, fieldsInOriginalQuery)
                     /\ ~ ( /\ fieldDescribe.lookup
                            /\ fieldDescribe.referencedObjectType
                                 \in OBJECTS_NOT_TO_USE_IN_QUERY_MULTISELECT )
         IN  MultiselectLoop(fieldsMap, i + 1,
                             IF push THEN Append(acc, getComposedField(fieldDescribe.name))
                             ELSE acc,
                             pattern, fieldsInOriginalQuery)

\* _addOrRemmoveFields without the filter on excludedFields
_addOrRemmoveFields_NoExclusion(pq, pattern, excluded, describe) ==
    LET expanded == IF pattern # Undefined
                    THEN MultiselectLoop(describe.fieldsMap, 1, pq.fields, pattern,
                                         fieldsInQueryOf(pq))
                    ELSE pq.fields
        npq == [ pq EXCEPT !.fields = expanded ]
    IN  [ parsedQuery |-> npq, query |-> composeQuery(npq) ]

\* _addOrRemmoveFields: the new this.parsedQuery and this.query
_addOrRemmoveFields(pq, pattern, excluded, describe) ==
    LET expanded == IF pattern # Undefined
                    THEN MultiselectLoop(describe.fieldsMap, 1, pq.fields, pattern,
                                         fieldsInQueryOf(pq))
                    ELSE pq.fields
        kept == SelectSeq(expanded, LAMBDA f : IndexOf(excluded, f.field) < 0)
        npq == [ pq EXCEPT !.fields = kept ]
    IN  [ parsedQuery |-> npq, query |-> composeQuery(npq) ]

fieldsMapHas(describe, x) == \E i \in DOMAIN describe.fieldsMap : describe.fieldsMap[i].name = x

\* the forEach of _validateFields over the copy of fieldsInQuery
RECURSIVE _validateLoop(_, _, _, _, _, _, _)
_validateLoop(copy, i, fields, warnings, describe, isSource, extId) ==
    IF i > Len(copy) THEN [ fields |-> fields, warnings |-> warnings, error |-> "none" ]
    ELSE LET x == copy[i]
         IN  IF ~isComplexOr__rField(x) /\ ~fieldsMapHas(describe, x)
             THEN IF JsLooseEq(StringName(x), JsString(extId))
                  THEN [ fields |-> fields, warnings |-> warnings,
                         error |-> "OrgMetadataError" ]
                  ELSE _validateLoop(copy, i + 1, removeBy(fields, x),
                         Append(warnings,
                                [ ev |-> "warn",
                                  side |-> IF isSource THEN "source" ELSE "target",
                                  field |-> x ]),
                         describe, isSource, extId)
             ELSE _validateLoop(copy, i + 1, fields, warnings, describe, isSource, extId)

\* _validateFields that warns about a missing field but leaves it in the query
_validateFields_NoRemove(pq, describe, isSource, extId, extra, special) ==
    IF Len(fieldsInQueryOf(pq)) = 0
    THEN [ fields |-> pq.fields, warnings |-> << >>, error |-> "CommandInitializationError" ]
    ELSE IF ~extra /\ ~special
    THEN [ _validateLoop(fieldsInQueryOf(pq), 1, pq.fields, << >>, describe, isSource, extId)
             EXCEPT !.fields = pq.fields ]
    ELSE [ fields |-> pq.fields, warnings |-> << >>, error |-> "none" ]

\* _validateFields whose skip of line 434 looks at isExtraObject only
_validateFields_IgnoreSpecial(pq, describe, isSource, extId, extra, special) ==
    IF Len(fieldsInQueryOf(pq)) = 0
    THEN [ fields |-> pq.fields, warnings |-> << >>, error |-> "CommandInitializationError" ]
    ELSE IF ~extra
    THEN _validateLoop(fieldsInQueryOf(pq), 1, pq.fields, << >>, describe, isSource, extId)
    ELSE [ fields |-> pq.fields, warnings |-> << >>, error |-> "none" ]

\* _validateFields: the fields left in this.parsedQuery, the warnings logged and
\* the error thrown ("none" when it returns)
_validateFields(pq, describe, isSource, extId, extra, special) ==
    IF Len(fieldsInQueryOf(pq)) = 0
    THEN [ fields |-> pq.fields, warnings |-> << >>, error |-> "CommandInitializationError" ]
    ELSE IF ~extra /\ ~special
    THEN _validateLoop(fieldsInQueryOf(pq), 1, pq.fields, << >>, describe, isSource, extId)
    ELSE [ fields |-> pq.fields, warnings |-> << >>, error |-> "none" ]

\* ------------------------------------------------------------------------
\* Inputs: the configurations a descriptor is deserialized from, the owning
\* scripts and the schema snapshots the describe client may return
\* ------------------------------------------------------------------------
Scripts == { "s1", "s2" }

ObjectQueries ==
    { [ query |-> << "SELECT", "Name", "FROM", "Account" >>,
        deleteQuery |-> << >> ],
      [ query |-> << "SELECT", "Id", "Name", "Phone", "FROM", "Account" >>,
        deleteQuery |-> << "SELECT", "Name", "FROM", "Account", "WHERE", "Name!=null" >> ],
      [ query |-> << "SELECT", "id", "Name", "ID", "Name", "FROM", "Contact" >>,
        deleteQuery |-> << >> ],
      [ query |-> << "SELECT", "all", "FROM", "Account" >>,
        deleteQuery |-> << >> ],
      [ query |-> << "SELECT", "Creatable_True", "Phone", "Parent.Name", "FROM", "Contact" >>,
        deleteQuery |-> << "DELETE", "FROM", "Contact" >> ],
      [ query |-> << "SELECT", "Name", "creatable_false", "custom_true", "FROM", "Group" >>,
        deleteQuery |-> << >> ],
      [ query |-> << "SELECT", "FROM", "Account" >>,
        deleteQuery |-> << >> ] }

Operations ==
    { StrOp("Insert"), NumOp(OPERATION_Insert), StrOp("Delete"), NumOp(OPERATION_Delete),
      StrOp("Upsert") }

ExternalIds == { "Id", "Name", "Name;Phone" }

ExcludedFieldLists == { << >>, << "Phone" >>, << "Id", "Name" >> }

\* (isPersonAccountEnabled, isExtraObject, deleteOldData): every pair of values of
\* two of the three flags occurs
FlagCombos ==
    { << FALSE, FALSE, FALSE >>, << FALSE, TRUE, TRUE >>,
      << TRUE, FALSE, TRUE >>, << TRUE, TRUE, FALSE >> }

FieldDescribe(n, creatable, custom, lookup, masterDetail, ref) ==
    [ name |-> n,
      props |-> [ p \in { "creatable", "custom" } |-> IF p = "creatable" THEN creatable ELSE custom ],
      lookup |-> lookup, isMasterDetail |-> masterDetail,
      referencedObjectType |-> ref, scriptObject |-> "undefined" ]

\* a descriptor built without the custom property
DynamicFieldDescribe(n, creatable) ==
    [ name |-> n,
      props |-> [ p \in { "creatable" } |-> creatable ],
      lookup |-> FALSE, isMasterDetail |-> FALSE,
      referencedObjectType |-> "", scriptObject |-> "undefined" ]

FullFieldsMap ==
    << FieldDescribe("Id", FALSE, FALSE, FALSE, FALSE, ""),
       FieldDescribe("Name", TRUE, FALSE, FALSE, FALSE, ""),
       FieldDescribe("Phone", TRUE, FALSE, FALSE, FALSE, ""),
       FieldDescribe("ParentId", TRUE, FALSE, TRUE, FALSE, "Account"),
       FieldDescribe("OwnerId", TRUE, FALSE, TRUE, FALSE, "User") >>

PartialFieldsMap ==
    << FieldDescribe("Id", FALSE, FALSE, FALSE, FALSE, ""),
       DynamicFieldDescribe("Email", TRUE),
       FieldDescribe("Master__c", TRUE, TRUE, TRUE, TRUE, "Contact") >>

SnapshotKinds == { "full", "partial" }

\* the SObjectDescribe that apisf.describeSObjectAsync resolves to
describeSObjectAsync(kind, org) ==
    [ org |-> org,
      fieldsMap |-> IF kind = "full" THEN FullFieldsMap ELSE PartialFieldsMap ]

\* [...describe.fieldsMap.values()].forEach(x => x.scriptObject = this)
SetScriptObject(describe) ==
    [ describe EXCEPT !.fieldsMap =
        [ i \in DOMAIN describe.fieldsMap |->
            [ describe.fieldsMap[i] EXCEPT !.scriptObject = "this" ] ] ]

\* ------------------------------------------------------------------------
\* State after construction from the deserialized configuration
\* ------------------------------------------------------------------------
NoCall == [ op |-> "none", error |-> "none", side |-> "none" ]

Init ==
    /\ \E q \in ObjectQueries : query = q.query /\ deleteQuery = q.deleteQuery
    /\ operation \in Operations
    /\ externalId \in ExternalIds
    /\ excludedFields \in ExcludedFieldLists
    /\ \E f \in FlagCombos, sm \in Medias, tm \in Medias :
         /\ env = [ s \in Scripts |->
                      [ sourceMedia |-> sm, targetMedia |-> tm,
                        isPersonAccountEnabled |-> f[1] ] ]
         /\ isExtraObject = f[2]
         /\ deleteOldData = f[3]
    /\ script = "undefined"
    /\ name = ""
    /\ sourceSObjectDescribe = Undefined
    /\ targetSObjectDescribe = Undefined
    /\ originalExternalId = ""
    /\ parsedQuery = Undefined
    /\ parsedDeleteQuery = Undefined
    /\ multiselectPattern = Undefined
    /\ objectsMap = [ s \in Scripts |-> << >> ]
    /\ siblings = << >>
    /\ pc = "idle"
    /\ lastCall = NoCall
    /\ log = << >>
    /\ hist = [ describeCalls |-> 0, setupOk |-> FALSE,
                setupFailed |-> FALSE, describeOk |-> FALSE,
                describeReturns |-> 0 ]

\* ------------------------------------------------------------------------
\* setup(script)
\* ------------------------------------------------------------------------
IsOp(op, n) == op.kind = "number" /\ op.num = n

\* lines 250-271 without the collapse of the field list on Delete
setupFields_NoCollapse(pq, op, extId, origExtId, isPersonAccountEnabled, nm) ==
    LET f1 == IF \E i \in DOMAIN pq.fields : pq.fields[i].field = "Id" THEN pq.fields
              ELSE Append(pq.fields, getComposedField("Id"))
        f2 == Append(f1, getComposedField(getComplexField(extId)))
        f3 == Append(f2, getComposedField(getComplexField(origExtId)))
        f4 == IF isPersonAccountEnabled /\ nm \in { "Account", "Contact" }
              THEN Append(f3, getComposedField("IsPersonAccount")) ELSE f3
    IN  [ pq EXCEPT !.fields = distinctArray(f4) ]

\* lines 250-269 without the distinctArray call of line 271
setupFields_NoDistinct(pq, op, extId, origExtId, isPersonAccountEnabled, nm) ==
    LET f0 == IF IsOp(op, OPERATION_Delete) THEN << getComposedField("Id") >> ELSE pq.fields
        f1 == IF \E i \in DOMAIN f0 : f0[i].field = "Id" THEN f0
              ELSE Append(f0, getComposedField("Id"))
        f2 == IF isComplexOr__rField(extId)
              THEN Append(f1, getComposedField(getComplexField(extId)))
              ELSE Append(f1, getComposedField(extId))
        f3 == Append(f2, getComposedField(getComplexField(origExtId)))
    IN  [ pq EXCEPT !.fields =
            IF isPersonAccountEnabled /\ nm \in { "Account", "Contact" }
            THEN Append(f3, getComposedField("IsPersonAccount")) ELSE f3 ]

\* lines 250-271: collapse on Delete, inject Id, the external id, the original
\* external id and IsPersonAccount, keep the first occurrence of every field
setupFields(pq, op, extId, origExtId, isPersonAccountEnabled, nm) ==
    LET f0 == IF IsOp(op, OPERATION_Delete) THEN << getComposedField("Id") >> ELSE pq.fields
        f1 == IF \E i \in DOMAIN f0 : f0[i].field = "Id" THEN f0
              ELSE Append(f0, getComposedField("Id"))
        f2 == IF isComplexOr__rField(extId)
              THEN Append(f1, getComposedField(getComplexField(extId)))
              ELSE Append(f1, getComposedField(extId))
        f3 == Append(f2, getComposedField(getComplexField(origExtId)))
        f4 == IF isPersonAccountEnabled /\ nm \in { "Account", "Contact" }
              THEN Append(f3, getComposedField("IsPersonAccount")) ELSE f3
    IN  [ pq EXCEPT !.fields = distinctArray(f4) ]

\* lines 283-291: the parsed delete query of a parsable text
setupDeleteQuery(text, isPersonAccountEnabled, nm) ==
    LET parsed == parseQuery(text)
    IN  [ parsed EXCEPT !.fields = << getComposedField("Id") >>,
                        !.where = IF isPersonAccountEnabled /\ nm = "Contact"
                                  THEN composeWhereClause(parsed.where) ELSE parsed.where ]

mapSet(m, k, v) == [ x \in (DOMAIN m) \cup { k } |-> IF x = k THEN v ELSE m[x] ]

Setup(s) ==
    /\ pc = "idle"
    /\ UNCHANGED siblings
    /\ IF isInitialized
       THEN /\ UNCHANGED hist
            /\ lastCall' = [ op |-> "setup", error |-> "none", side |-> "none" ]
            /\ UNCHANGED << query, deleteQuery, operation, externalId, deleteOldData,
                            script, name, originalExternalId, parsedQuery,
                            parsedDeleteQuery, multiselectPattern, objectsMap >>
       ELSE LET op == getOperation(operation)
                extId == IF IsOp(op, OPERATION_Insert) THEN "Id" ELSE externalId
                person == env[s].isPersonAccountEnabled
            IN  /\ script' = s
                /\ originalExternalId' = externalId
                /\ operation' = op
                /\ externalId' = extId
                /\ IF ~isParsable(query)
                   THEN /\ lastCall' = [ op |-> "setup", error |-> "CommandInitializationError",
                                         side |-> "none" ]
                        /\ hist' = [ hist EXCEPT !.setupFailed = TRUE ]
                        /\ UNCHANGED << query, deleteQuery, deleteOldData, name, parsedQuery,
                                        parsedDeleteQuery, multiselectPattern, objectsMap >>
                   ELSE LET r == _parseQuery(query, multiselectPattern)
                            pq == setupFields(r.parsedQuery, op, extId, externalId, person, name)
                            del == deleteOldData \/ IsOp(op, OPERATION_Delete)
                            text == IF deleteQuery # << >> THEN deleteQuery
                                    ELSE composeQuery(pq)
                        IN  /\ multiselectPattern' = r.multiselectPattern
                            /\ parsedQuery' = pq
                            /\ deleteOldData' = del
                            /\ query' = composeQuery(pq)
                            /\ name' = pq.sObject
                            /\ objectsMap' = [ objectsMap EXCEPT
                                                 ![s] = mapSet(@, pq.sObject, "this") ]
                            /\ IF del /\ ~isParsable(text)
                               THEN /\ lastCall' = [ op |-> "setup",
                                                     error |-> "CommandInitializationError",
                                                     side |-> "none" ]
                                    /\ hist' = [ hist EXCEPT !.setupFailed = TRUE ]
                                    /\ UNCHANGED << deleteQuery, parsedDeleteQuery >>
                               ELSE /\ lastCall' = [ op |-> "setup", error |-> "none",
                                                     side |-> "none" ]
                                    /\ hist' = [ hist EXCEPT !.setupOk = TRUE ]
                                    /\ IF del
                                       THEN LET pdq == setupDeleteQuery(text, person, pq.sObject)
                                            IN  /\ parsedDeleteQuery' = pdq
                                                /\ deleteQuery' = composeQuery(pdq)
                                       ELSE UNCHANGED << deleteQuery, parsedDeleteQuery >>
    /\ UNCHANGED << excludedFields, isExtraObject, sourceSObjectDescribe,
                    targetSObjectDescribe, env, pc, log >>

\* ------------------------------------------------------------------------
\* describeAsync()
\* ------------------------------------------------------------------------
Event(ev, side, field) == [ ev |-> ev, side |-> side, field |-> field ]

Returned(op) == [ op |-> op, error |-> "none", side |-> "none" ]
Threw(op, error, side) == [ op |-> op, error |-> error, side |-> side ]

\* a catch block that wraps whatever it caught
rethrow_AlwaysWrap(error) == "OrgMetadataError"

\* the catch blocks of lines 330-335 and 359-364
rethrow(error) ==
    IF error = "CommandInitializationError" THEN error ELSE "OrgMetadataError"

\* both side steps with the expansion run whatever the other side is
describeSide_AlwaysExpand(pq, q, pattern, excluded, describe, isSource, expand, extId, extra, special) ==
    IF pq = Undefined
    THEN [ parsedQuery |-> pq, query |-> q, events |-> << >>, error |-> "TypeError" ]
    ELSE LET side == IF isSource THEN "source" ELSE "target"
             a == _addOrRemmoveFields(pq, pattern, excluded, describe)
             v == _validateFields(a.parsedQuery, describe, isSource, extId, extra, special)
         IN  [ parsedQuery |-> [ a.parsedQuery EXCEPT !.fields = v.fields ],
               query |-> a.query,
               events |-> << Event("expand", side, ""), Event("validate", side, "") >>
                            \o v.warnings,
               error |-> v.error ]

\* lines 325-328 and 353-357: expansion (when expand holds) and validation against
\* one snapshot; a missing this.parsedQuery makes the first field access throw
describeSide(pq, q, pattern, excluded, describe, isSource, expand, extId, extra, special) ==
    IF pq = Undefined
    THEN [ parsedQuery |-> pq, query |-> q, events |-> << >>, error |-> "TypeError" ]
    ELSE LET side == IF isSource THEN "source" ELSE "target"
             a == IF expand THEN _addOrRemmoveFields(pq, pattern, excluded, describe)
                  ELSE [ parsedQuery |-> pq, query |-> q ]
             v == _validateFields(a.parsedQuery, describe, isSource, extId, extra, special)
         IN  [ parsedQuery |-> [ a.parsedQuery EXCEPT !.fields = v.fields ],
               query |-> a.query,
               events |-> (IF expand THEN << Event("expand", side, "") >> ELSE << >>)
                            \o << Event("validate", side, "") >> \o v.warnings,
               error |-> v.error ]

\* the call, up to its first await
DescribeAsync ==
    /\ pc = "idle"
    /\ UNCHANGED siblings
    /\ hist.describeCalls < MaxDescribeCalls
    /\ IF isDescribed
       THEN /\ lastCall' = Returned("describe")
            /\ hist' = [ hist EXCEPT !.describeCalls = @ + 1, !.describeOk = TRUE,
                               !.describeReturns = @ + 1 ]
            /\ UNCHANGED << pc, log >>
       ELSE IF ~isInitialized
       THEN /\ lastCall' = Threw("describe", "TypeError", "none")
            /\ hist' = [ hist EXCEPT !.describeCalls = @ + 1 ]
            /\ UNCHANGED << pc, log >>
       ELSE IF env[script].sourceMedia = "Org"
       THEN /\ pc' = "awaitSource"
            /\ log' = Append(log, Event("fetch", "source", name))
            /\ hist' = [ hist EXCEPT !.describeCalls = @ + 1 ]
            /\ UNCHANGED lastCall
       ELSE IF env[script].targetMedia = "Org"
       THEN /\ pc' = "awaitTarget"
            /\ log' = Append(log, Event("fetch", "target", name))
            /\ hist' = [ hist EXCEPT !.describeCalls = @ + 1 ]
            /\ UNCHANGED lastCall
       ELSE /\ lastCall' = Returned("describe")
            /\ hist' = [ hist EXCEPT !.describeCalls = @ + 1, !.describeOk = TRUE,
                               !.describeReturns = @ + 1 ]
            /\ UNCHANGED << pc, log >>
    /\ UNCHANGED << query, deleteQuery, operation, externalId, deleteOldData, excludedFields,
                    isExtraObject, script, name, sourceSObjectDescribe,
                    targetSObjectDescribe, originalExternalId, parsedQuery,
                    parsedDeleteQuery, multiselectPattern, env, objectsMap >>

\* the source fetch is rejected: line 334
SourceFetchFailed ==
    /\ pc = "awaitSource"
    /\ UNCHANGED siblings
    /\ pc' = "idle"
    /\ lastCall' = Threw("describe", rethrow("FetchError"), "source")
    /\ UNCHANGED << query, deleteQuery, operation, externalId, deleteOldData, excludedFields,
                    isExtraObject, script, name, sourceSObjectDescribe,
                    targetSObjectDescribe, originalExternalId, parsedQuery,
                    parsedDeleteQuery, multiselectPattern, env, objectsMap, log, hist >>

\* the source fetch resolves: lines 317-343
SourceFetched(kind) ==
    /\ pc = "awaitSource"
    /\ UNCHANGED siblings
    /\ LET describe == SetScriptObject(describeSObjectAsync(kind, "source"))
           r == describeSide(parsedQuery, query, multiselectPattern, excludedFields,
                             describe, TRUE, TRUE, externalId, isExtraObject,
                             isSpecialObject)
       IN  /\ sourceSObjectDescribe' = describe
           /\ targetSObjectDescribe' = IF env[script].targetMedia = "File" THEN describe
                                       ELSE targetSObjectDescribe
           /\ parsedQuery' = r.parsedQuery
           /\ query' = r.query
           /\ IF r.error # "none"
              THEN /\ pc' = "idle"
                   /\ lastCall' = Threw("describe", rethrow(r.error), "source")
                   /\ log' = log \o r.events
                   /\ UNCHANGED hist
              ELSE IF env[script].targetMedia = "Org"
              THEN /\ pc' = "awaitTarget"
                   /\ log' = log \o r.events \o << Event("fetch", "target", name) >>
                   /\ UNCHANGED << lastCall, hist >>
              ELSE /\ pc' = "idle"
                   /\ lastCall' = Returned("describe")
                   /\ log' = log \o r.events
                   /\ hist' = [ hist EXCEPT !.describeOk = TRUE,
                               !.describeReturns = @ + 1 ]
    /\ UNCHANGED << deleteQuery, operation, externalId, deleteOldData, excludedFields,
                    isExtraObject, script, name, originalExternalId, parsedDeleteQuery,
                    multiselectPattern, env, objectsMap >>

\* the target fetch is rejected: line 363
TargetFetchFailed ==
    /\ pc = "awaitTarget"
    /\ UNCHANGED siblings
    /\ pc' = "idle"
    /\ lastCall' = Threw("describe", rethrow("FetchError"), "target")
    /\ UNCHANGED << query, deleteQuery, operation, externalId, deleteOldData, excludedFields,
                    isExtraObject, script, name, sourceSObjectDescribe,
                    targetSObjectDescribe, originalExternalId, parsedQuery,
                    parsedDeleteQuery, multiselectPattern, env, objectsMap, log, hist >>

\* the target fetch resolves: lines 346-365
TargetFetched(kind) ==
    /\ pc = "awaitTarget"
    /\ UNCHANGED siblings
    /\ LET describe == SetScriptObject(describeSObjectAsync(kind, "target"))
           mirror == env[script].sourceMedia = "File"
           r == describeSide(parsedQuery, query, multiselectPattern, excludedFields,
                             describe, FALSE, mirror, externalId, isExtraObject,
                             isSpecialObject)
       IN  /\ targetSObjectDescribe' = describe
           /\ sourceSObjectDescribe' = IF mirror THEN describe ELSE sourceSObjectDescribe
           /\ parsedQuery' = r.parsedQuery
           /\ query' = r.query
           /\ pc' = "idle"
           /\ log' = log \o r.events
           /\ IF r.error # "none"
              THEN /\ lastCall' = Threw("describe", rethrow(r.error), "target")
                   /\ UNCHANGED hist
              ELSE /\ lastCall' = Returned("describe")
                   /\ hist' = [ hist EXCEPT !.describeOk = TRUE,
                               !.describeReturns = @ + 1 ]
    /\ UNCHANGED << deleteQuery, operation, externalId, deleteOldData, excludedFields,
                    isExtraObject, script, name, originalExternalId, parsedDeleteQuery,
                    multiselectPattern, env, objectsMap >>

Next ==
    \/ \E s \in Scripts : Setup(s)
    \/ DescribeAsync
    \/ SourceFetchFailed
    \/ \E kind \in SnapshotKinds : SourceFetched(kind)
    \/ TargetFetchFailed
    \/ \E kind \in SnapshotKinds : TargetFetched(kind)

Spec == Init /\ [][Next]_vars

\* ------------------------------------------------------------------------
\* Derived views
\* ------------------------------------------------------------------------
\* Common.filterMapByArray(fieldsInQuery, fieldsMap, key => dynamic descriptor, true)
filterMapByArray(keys, fieldsMap) ==
    [ i \in DOMAIN keys |->
        IF \E j \in DOMAIN fieldsMap : fieldsMap[j].name = keys[i]
        THEN fieldsMap[CHOOSE j \in DOMAIN fieldsMap : fieldsMap[j].name = keys[i]]
        ELSE [ name |-> keys[i], props |-> [ p \in { "creatable" } |-> FALSE ],
               lookup |-> FALSE, isMasterDetail |-> FALSE,
               referencedObjectType |-> "", scriptObject |-> "undefined" ] ]

fieldsInQueryMap ==
    IF ~isDescribed THEN << >>
    ELSE filterMapByArray(fieldsInQuery, sourceSObjectDescribe.fieldsMap)

\* SFieldDescribe.parentLookupObject: the descriptor registered under the
\* referenced entity in the registry of the owning script
parentLookupObject(fieldDescribe) ==
    IF /\ fieldDescribe.scriptObject = "this"
       /\ script # "undefined"
       /\ fieldDescribe.referencedObjectType \in DOMAIN objectsMap[script]
    THEN objectsMap[script][fieldDescribe.referencedObjectType]
    ELSE "undefined"

RECURSIVE distinctValues(_)
distinctValues(arr) ==
    IF arr = << >> THEN << >>
    ELSE LET init == distinctValues(SubSeq(arr, 1, Len(arr) - 1))
         IN  IF arr[Len(arr)] \in Range(init) THEN init ELSE Append(init, arr[Len(arr)])

parentObjects(masterDetailOnly) ==
    LET m == fieldsInQueryMap
        picked == SelectSeq(m, LAMBDA x :
                     /\ IF masterDetailOnly THEN x.isMasterDetail ELSE x.lookup
                     /\ parentLookupObject(x) # "undefined")
    IN  distinctValues([ i \in DOMAIN picked |-> parentLookupObject(picked[i]) ])

parentLookupObjects == parentObjects(FALSE)

parentMasterDetailObjects == parentObjects(TRUE)

\* ------------------------------------------------------------------------
\* Properties
\* ------------------------------------------------------------------------
DescribeReturned == pc = "idle" /\ lastCall = Returned("describe")

AfterSetup == hist.setupOk /\ hist.describeCalls = 0

WarnedAbout(field) == \E i \in DOMAIN log : log[i].ev = "warn" /\ log[i].field = field

\* C1: describe() never completes successfully having merely warned about (and
\* pruned) the configured plain external-id field that a describable side lacks;
\* it ends in a fatal error instead.
C1_MissingExternalIdIsFatal ==
    ~ ( /\ DescribeReturned
        /\ ~isComplexOr__rField(externalId)
        /\ WarnedAbout(externalId) )

\* C2: after a successful setup() of a Delete descriptor the resolved field list
\* is exactly [Id] and the delete-query field list is exactly [Id].
C2_DeleteCollapsesToId ==
    (AfterSetup /\ IsOp(operation, OPERATION_Delete)) =>
        /\ fieldsInQuery = << "Id" >>
        /\ fieldsInQueryOf(parsedDeleteQuery) = << "Id" >>

\* C2 (amended): after a successful setup() of a Delete descriptor the delete-query
\* field list is exactly [Id]; the resolved field list is Id, then the external-id
\* field in query form when it is not Id, then IsPersonAccount when injected: no
\* field the user listed is left.
C2_DeleteKeepsOnlyInjectedFields ==
    (AfterSetup /\ IsOp(operation, OPERATION_Delete)) =>
        /\ fieldsInQueryOf(parsedDeleteQuery) = << "Id" >>
        /\ LET ext == IF externalId = "Id" THEN << >>
                      ELSE << getComplexField(externalId) >>
           IN  fieldsInQuery \in { << "Id" >> \o ext,
                                   << "Id" >> \o ext \o << "IsPersonAccount" >> }

C2_Witness ==
    /\ AfterSetup
    /\ IsOp(operation, OPERATION_Delete)
    /\ originalExternalId = "Name"
    /\ fieldsInQuery = << "Id", "Name" >>
    /\ fieldsInQueryOf(parsedDeleteQuery) = << "Id" >>
    /\ deleteQuery = << "SELECT", "Id", "FROM", "Account", "WHERE", "Name!=null" >>

\* C3: whenever setup() or describe() has returned or thrown after a successful
\* setup, the stored query string is the serialization of the resolved field list.
C3_QueryStringMatchesFields ==
    (hist.setupOk /\ pc = "idle") => query = composeQuery(parsedQuery)

\* C4: as long as no describe() call has returned successfully, isDescribed is
\* false and the derived views are empty (here: at the states where no call is in
\* flight of a descriptor whose setup() succeeded, so after every call that threw).
C4_ViewsEmptyUntilDescribed ==
    (hist.setupOk /\ ~hist.describeOk /\ pc = "idle") =>
        /\ ~isDescribed
        /\ fieldsInQueryMap = << >>
        /\ parentLookupObjects = << >>
        /\ parentMasterDetailObjects = << >>

\* C5: after a successful setup() the resolved field list contains Id and the
\* external-id field (query form) exactly once each, in every later state (here:
\* for exclusion lists that name neither of the two).
C5_IdAndExternalIdOnce ==
    ( /\ hist.setupOk
      /\ "Id" \notin Range(excludedFields)
      /\ complexExternalId \notin Range(excludedFields) ) =>
        /\ Count(fieldsInQuery, "Id") = 1
        /\ Count(fieldsInQuery, complexExternalId) = 1

\* C6: for every media configuration, once describe() has returned successfully no
\* excluded field is in the resolved field list.
C6_ExcludedNeverInQuery ==
    DescribeReturned => \A f \in Range(excludedFields) : f \notin Range(fieldsInQuery)

\* C6 (amended): when at least one side is a describable Org, once describe() has
\* returned successfully no excluded field is in the resolved field list.
C6_ExcludedNeverInQueryWithOrg ==
    ( /\ DescribeReturned
      /\ \/ env[script].sourceMedia = "Org"
         \/ env[script].targetMedia = "Org" ) =>
        \A f \in Range(excludedFields) : f \notin Range(fieldsInQuery)

C6_Witness ==
    /\ DescribeReturned
    /\ env[script].sourceMedia = "Org"
    /\ multiselectPattern # Undefined
    /\ excludedFields = << "Phone" >>
    /\ fieldsMapHas(sourceSObjectDescribe, "Phone")
    /\ "Phone" \notin Range(fieldsInQuery)
    /\ "ParentId" \in Range(fieldsInQuery)

\* C7: after a successful setup() the resolved field list contains Id exactly once
\* and Id is its first element, however often and in whatever case the query text
\* listed it.
C7_IdOnceAndFirst ==
    AfterSetup => /\ Len(fieldsInQuery) >= 1
                  /\ fieldsInQuery[1] = "Id"
                  /\ Count(fieldsInQuery, "Id") = 1
                  /\ \A i \in DOMAIN fieldsInQuery : toLowerCase(fieldsInQuery[i]) = "id" => i = 1

C7_Witness ==
    /\ AfterSetup
    /\ name = "Contact"
    /\ multiselectPattern = Undefined
    /\ fieldsInQuery[1] = "Id"
    /\ Count(fieldsInQuery, "Name") = 1

\* C8: a setup() that succeeds on a descriptor whose operation is Insert, in string
\* or numeric form, leaves externalId = Id and originalExternalId = the configured
\* external id.
C8_InsertForcesExternalId ==
    [][ ( /\ ~isInitialized
          /\ operation \in { StrOp("Insert"), NumOp(OPERATION_Insert) }
          /\ lastCall' = Returned("setup") ) =>
            /\ externalId' = "Id"
            /\ originalExternalId' = externalId
            /\ IsOp(operation', OPERATION_Insert) ]_vars

C8_Witness ==
    /\ AfterSetup
    /\ IsOp(operation, OPERATION_Insert)
    /\ externalId = "Id"
    /\ originalExternalId = "Name;Phone"
    /\ "$$Name$Phone" \in Range(fieldsInQuery)

\* the field list that validation receives in a step that resolves a fetch
ValidationInput(expand, describe) ==
    IF expand
    THEN fieldsInQueryOf(_addOrRemmoveFields(parsedQuery, multiselectPattern,
                                             excludedFields, describe).parsedQuery)
    ELSE fieldsInQuery

IsMissing(f, describe) == ~isComplexOr__rField(f) /\ ~fieldsMapHas(describe, f)

ValidationStepOk(side, expand, describe) ==
    LET input == ValidationInput(expand, describe)
        new == SubSeq(log', Len(log) + 1, Len(log'))
        warns(f) == { i \in DOMAIN new : new[i].ev = "warn" /\ new[i].field = f }
    IN  (parsedQuery # Undefined /\ input # << >> /\ ~isExtraObject /\ ~isSpecialObject) =>
          /\ \A f \in Range(input) :
               (IsMissing(f, describe) /\ f # externalId) =>
                  /\ Cardinality(warns(f)) = 1
                  /\ \A i \in warns(f) : new[i].side = side
                  /\ f \notin Range(fieldsInQuery')
          /\ \A f \in Range(input) :
               ~IsMissing(f, describe) => f \in Range(fieldsInQuery') /\ warns(f) = { }
          /\ fieldsInQuery' = SelectSeq(input, LAMBDA f : f \in Range(fieldsInQuery'))
          /\ pc' = "awaitTarget" \/ lastCall' = Returned("describe")

\* C9: a plain field of the resolved field list that is not the external id and is
\* absent from the snapshot of a describable side gets one warning tagged with that
\* side and is removed; every field the snapshot has (and every composite or
\* relationship field) is kept in order, and describe() does not fail.
C9_MissingFieldWarnedAndPruned ==
    [][ /\ (pc = "awaitSource" /\ sourceSObjectDescribe' # sourceSObjectDescribe) =>
              ValidationStepOk("source", TRUE, sourceSObjectDescribe')
        /\ (pc = "awaitTarget" /\ targetSObjectDescribe' # targetSObjectDescribe) =>
              ValidationStepOk("target", env[script].sourceMedia = "File",
                               targetSObjectDescribe') ]_vars

C9_Witness ==
    /\ DescribeReturned
    /\ externalId = "Id"
    /\ \E i \in DOMAIN log : log[i] = Event("warn", "target", "Phone")
    /\ ~ \E i \in DOMAIN log : log[i].ev = "warn" /\ log[i].side = "source"
    /\ "Phone" \notin Range(fieldsInQuery)
    /\ "Parent.Name" \in Range(fieldsInQuery)
    /\ "Id" \in Range(fieldsInQuery)

\* ------------------------------------------------------------------------
\* Multiselect expansion applied repeatedly to one snapshot
\* ------------------------------------------------------------------------
MaxFieldListLen == 2
MaxExpansions == 2

ExpandNames == { "Id", "Name", "Phone", "Parent.Name" }

\* the field lists without repetition of at most MaxFieldListLen names
ExpandFieldLists ==
    UNION { { l \in [ 1..n -> ExpandNames ] : \A i, j \in 1..n : i # j => l[i] # l[j] }
            : n \in 0..MaxFieldListLen }

ExpandPatterns ==
    { Undefined,
      ___set(Undefined, "all_true"),
      ___set(Undefined, "creatable_true"),
      ___set(Undefined, "custom_true"),
      ___set(___set(Undefined, "creatable_false"), "custom_true"),
      ___set(___set(Undefined, "all_true"), "creatable_false") }

ExpandExcludedFieldLists == ExcludedFieldLists \cup { << "ParentId", "Email" >> }

InitExpand ==
    /\ \E l \in ExpandFieldLists :
         parsedQuery = [ fields |-> [ i \in DOMAIN l |-> getComposedField(l[i]) ],
                         sObject |-> "Account", where |-> << >> ]
    /\ query = composeQuery(parsedQuery)
    /\ multiselectPattern \in ExpandPatterns
    /\ excludedFields \in ExpandExcludedFieldLists
    /\ \E kind \in SnapshotKinds :
         sourceSObjectDescribe = SetScriptObject(describeSObjectAsync(kind, "source"))
    /\ targetSObjectDescribe = Undefined
    /\ deleteQuery = << >>
    /\ operation = NumOp(OPERATION_Upsert)
    /\ externalId = "Id"
    /\ originalExternalId = "Id"
    /\ deleteOldData = FALSE
    /\ isExtraObject = FALSE
    /\ script = "s1"
    /\ name = "Account"
    /\ parsedDeleteQuery = Undefined
    /\ env = [ s \in Scripts |-> [ sourceMedia |-> "Org", targetMedia |-> "Org",
                                   isPersonAccountEnabled |-> FALSE ] ]
    /\ objectsMap = [ s \in Scripts |-> IF s = "s1" THEN mapSet(<< >>, "Account", "this")
                                        ELSE << >> ]
    /\ siblings = << >>
    /\ pc = "expand"
    /\ lastCall = NoCall
    /\ log = << >>
    /\ hist = [ describeCalls |-> 1, setupOk |-> TRUE,
                setupFailed |-> FALSE, describeOk |-> FALSE,
                describeReturns |-> 0 ]

\* this._addOrRemmoveFields(this.sourceSObjectDescribe)
AddOrRemmoveFields ==
    /\ pc = "expand"
    /\ UNCHANGED siblings
    /\ Len(log) < MaxExpansions
    /\ LET r == _addOrRemmoveFields(parsedQuery, multiselectPattern, excludedFields,
                                    sourceSObjectDescribe)
       IN  /\ parsedQuery' = r.parsedQuery
           /\ query' = r.query
    /\ log' = Append(log, Event("expand", "source", ""))
    /\ UNCHANGED << deleteQuery, operation, externalId, deleteOldData, excludedFields,
                    isExtraObject, script, name, sourceSObjectDescribe,
                    targetSObjectDescribe, originalExternalId, parsedDeleteQuery,
                    multiselectPattern, env, objectsMap, pc, lastCall, hist >>

NextExpand == AddOrRemmoveFields

SpecExpand == InitExpand /\ [][NextExpand]_vars

\* C10: applying the expansion step again with the same snapshot changes neither
\* the resolved field list nor the query string, and the expanded list has no
\* duplicates.
C10_ExpansionIdempotent ==
    /\ [][ Len(log) >= 1 => (parsedQuery' = parsedQuery /\ query' = query) ]_vars
    /\ [] ( Len(log) >= 1 => \A f \in Range(fieldsInQuery) : Count(fieldsInQuery, f) = 1 )

C10_Witness ==
    /\ pc = "expand"
    /\ Len(log) = 2
    /\ multiselectPattern # Undefined
    /\ excludedFields = << "Phone" >>
    /\ fieldsInQuery = << "Name", "Id", "ParentId" >>

\* ------------------------------------------------------------------------
\* C11: in every state reached after a successful setup(), also after the
\* expansion, exclusion and pruning of describe(), no field name occurs more
\* than once in the resolved field list.
\* ------------------------------------------------------------------------
C11_NoDuplicateFields ==
    (hist.setupOk /\ parsedQuery # Undefined) =>
        \A f \in Range(fieldsInQuery) : Count(fieldsInQuery, f) = 1

\* a described descriptor whose query carried a multiselect pattern and whose
\* list holds the injected external id next to the fields the expansion added
C11_Witness ==
    /\ hist.setupOk
    /\ DescribeReturned
    /\ isDescribed
    /\ multiselectPattern # Undefined
    /\ originalExternalId = "Name"
    /\ \E e \in Range(log) : e.ev = "expand"
    /\ { "Id", "Name", "ParentId" } \subseteq Range(fieldsInQuery)

\* ------------------------------------------------------------------------
\* C12: exactly one normalization pass occurs: a setup() call made after a
\* first setup() call, with the same or another owner, leaves operation,
\* externalId, originalExternalId, the resolved query, the query strings, the
\* entity name and the registry of every owner unchanged.
\* ------------------------------------------------------------------------
SetupCalled == script # "undefined"

\* a step that is a setup() call: the only call that starts and ends outside a
\* describe() and counts no describe() call
IsSetupStep ==
    /\ pc = "idle"
    /\ pc' = "idle"
    /\ hist'.describeCalls = hist.describeCalls
    /\ lastCall'.op = "setup"

C12_SecondSetupChangesNothing ==
    [][ (SetupCalled /\ IsSetupStep) =>
            UNCHANGED << operation, externalId, originalExternalId, parsedQuery,
                         parsedDeleteQuery, multiselectPattern, query, deleteQuery,
                         name, script, deleteOldData, objectsMap >> ]_vars

\* a setup() call has returned on a descriptor that was already described,
\* whose first setup() forced the external id of an Insert
C12_Witness ==
    /\ isDescribed
    /\ hist.setupOk
    /\ lastCall = Returned("setup")
    /\ originalExternalId = "Name"
    /\ externalId = "Id"
    /\ name \in DOMAIN objectsMap[script]

\* ------------------------------------------------------------------------
\* C13: when setup() fails with a configuration error because the query text
\* is malformed, the descriptor cannot proceed to describe: a later describe()
\* call on it issues no schema fetch and assigns no schema snapshot.
\* ------------------------------------------------------------------------
QueryRejected == hist.setupFailed /\ parsedQuery = Undefined

C13_NoDescribeAfterFailedSetup ==
    QueryRejected =>
        /\ \A e \in Range(log) : e.ev # "fetch"
        /\ sourceSObjectDescribe = Undefined
        /\ targetSObjectDescribe = Undefined

\* ------------------------------------------------------------------------
\* C14: every error that leaves describe() is a configuration error or a
\* metadata error: a rejected schema fetch is wrapped into the metadata error
\* of its side, and a configuration error raised inside the source-side or
\* target-side step (the empty field list of validation) propagates unchanged.
\* ------------------------------------------------------------------------
DescribeThrew == lastCall.op = "describe" /\ lastCall.error # "none"

\* the claim as stated, for every describe() call
C14_OnlyConfigurationOrMetadataErrors ==
    DescribeThrew =>
        lastCall.error \in { "CommandInitializationError", "OrgMetadataError" }

\* the fetch awaited at position p ends the call without a snapshot
FetchRejected(p, describe) == pc = p /\ pc' = "idle" /\ describe' = describe

\* the fetch awaited at position p resolves and validation gets an empty list
EmptyListAt(p, describe, expand) ==
    /\ pc = p
    /\ describe' # describe
    /\ parsedQuery # Undefined
    /\ ValidationInput(expand, describe') = << >>

\* C14 for a descriptor on which setup() has been called: the error that
\* leaves describe() is a configuration error or a metadata error, a rejected
\* fetch gives the metadata error of its side and the empty-list configuration
\* error leaves unchanged.
C14_ErrorsOfInitializedDescribe ==
    /\ []((SetupCalled /\ DescribeThrew) =>
            lastCall.error \in { "CommandInitializationError", "OrgMetadataError" })
    /\ [][ /\ FetchRejected("awaitSource", sourceSObjectDescribe) =>
                lastCall' = Threw("describe", "OrgMetadataError", "source")
           /\ FetchRejected("awaitTarget", targetSObjectDescribe) =>
                lastCall' = Threw("describe", "OrgMetadataError", "target")
           /\ EmptyListAt("awaitSource", sourceSObjectDescribe, TRUE) =>
                /\ pc' = "idle"
                /\ lastCall'.op = "describe"
                /\ lastCall'.error = "CommandInitializationError"
           /\ EmptyListAt("awaitTarget", targetSObjectDescribe,
                          env[script].sourceMedia = "File") =>
                /\ lastCall'.op = "describe"
                /\ lastCall'.error = "CommandInitializationError" ]_vars

\* the empty-list configuration error has left the source-side step of a
\* descriptor whose setup() succeeded
C14_Witness ==
    /\ hist.setupOk
    /\ lastCall = Threw("describe", "CommandInitializationError", "source")
    /\ sourceSObjectDescribe # Undefined
    /\ fieldsInQuery = << >>

\* ------------------------------------------------------------------------
\* C15: during multiselect expansion with a pattern that is not all=true, a
\* snapshot field is appended only if, for every property/value pair of the
\* pattern, the field's property of that name equals the expected value; a
\* field for which some pattern property differs or is not defined on the field
\* descriptor is not appended.
\* ------------------------------------------------------------------------
PatternIsAll(pattern) == "all" \in DOMAIN pattern /\ pattern["all"]

\* the snapshot fields the step has appended to the resolved field list
Appended(describe) ==
    { fd \in Range(describe.fieldsMap) :
        fd.name \in Range(fieldsInQuery') \ Range(fieldsInQuery) }

\* the claim as stated: every pattern property is defined on an appended field
\* and has the expected value
C15_AppendedFieldsHaveEveryProperty ==
    [][ (pc = "expand" /\ multiselectPattern # Undefined
           /\ ~PatternIsAll(multiselectPattern)) =>
          \A fd \in Appended(sourceSObjectDescribe) :
             \A prop \in DOMAIN multiselectPattern :
                /\ prop \in DOMAIN fd.props
                /\ fd.props[prop] = multiselectPattern[prop] ]_vars

\* C15 as the code has it: during multiselect expansion with a pattern that is
\* not all=true, a snapshot field is appended only if every pattern property
\* that is defined on the field descriptor equals the expected value; a pattern
\* property the descriptor does not define is ignored.
C15_AppendedFieldsMatchDefinedProperties ==
    [][ (pc = "expand" /\ multiselectPattern # Undefined
           /\ ~PatternIsAll(multiselectPattern)) =>
          \A fd \in Appended(sourceSObjectDescribe) :
             \A prop \in DOMAIN multiselectPattern :
                prop \in DOMAIN fd.props => fd.props[prop] = multiselectPattern[prop] ]_vars

\* expansion under custom_true has run on the partial snapshot: the custom
\* master-detail field and Email, which does not define custom, were appended,
\* and Id, whose custom differs, was not
C15_Witness ==
    /\ pc = "expand"
    /\ Len(log) >= 1
    /\ multiselectPattern = ___set(Undefined, "custom_true")
    /\ fieldsMapHas(sourceSObjectDescribe, "Id")
    /\ { "Master__c", "Email" } \subseteq Range(fieldsInQuery)
    /\ "Id" \notin Range(fieldsInQuery)

\* ------------------------------------------------------------------------
\* C16: within one describe() call, field expansion and field validation each
\* run exactly once for every describable (Org) side and never for a File
\* side, in source-then-target order: the target-side fetch is issued only
\* after the source-side fetch, expansion and validation have all completed
\* without error.
\* ------------------------------------------------------------------------
\* the events that open a describe() call: its first fetch
IsCallStart(e) ==
    e.ev = "fetch" /\ (e.side = "source" \/ env[script].sourceMedia = "File")

\* the events of the describe() call that logged last
CallLog ==
    LET starts == { i \in DOMAIN log : IsCallStart(log[i]) }
    IN  IF starts = { } THEN << >>
        ELSE SubSeq(log, CHOOSE i \in starts : \A j \in starts : j <= i, Len(log))

\* the fetches and the expansion and validation runs of a call, in order
Steps(callLog) ==
    LET runs == SelectSeq(callLog, LAMBDA e : e.ev \in { "fetch", "expand", "validate" })
    IN  [ i \in DOMAIN runs |-> << runs[i].ev, runs[i].side >> ]

IsPrefix(s, t) == Len(s) <= Len(t) /\ s = SubSeq(t, 1, Len(s))

\* the steps of a complete call when every Org side is fetched, expanded and
\* validated, source first
StepsPerSide(media) ==
    (IF media.sourceMedia = "Org"
     THEN << << "fetch", "source" >>, << "expand", "source" >>, << "validate", "source" >> >>
     ELSE << >>)
    \o (IF media.targetMedia = "Org"
        THEN << << "fetch", "target" >>, << "expand", "target" >>, << "validate", "target" >> >>
        ELSE << >>)

\* the steps of a complete call as lines 311-365 run them: the expansion runs
\* against the first snapshot fetched only
StepsOfDescribe(media) ==
    (IF media.sourceMedia = "Org"
     THEN << << "fetch", "source" >>, << "expand", "source" >>, << "validate", "source" >> >>
     ELSE << >>)
    \o (IF media.targetMedia = "Org"
        THEN << << "fetch", "target" >> >>
             \o (IF media.sourceMedia = "File" THEN << << "expand", "target" >> >> ELSE << >>)
             \o << << "validate", "target" >> >>
        ELSE << >>)

\* a describe() call that fetched returns successfully
CallCompletes == pc # "idle" /\ pc' = "idle" /\ lastCall' = Returned("describe")

\* the claim as stated, on the first describe() call of a descriptor
C16_ExpansionAndValidationOncePerOrgSide ==
    (SetupCalled /\ DescribeReturned /\ hist.describeCalls = 1) =>
        Steps(log) = StepsPerSide(env[script])

\* C16 as the code has it: within one describe() call validation runs exactly
\* once for every Org side and never for a File side, expansion runs exactly
\* once, against the first snapshot fetched (the source one unless the source
\* is a File), and every step starts only after the steps before it, source
\* first, have completed without error.
C16_StepsInOrder ==
    /\ [](SetupCalled => IsPrefix(Steps(CallLog), StepsOfDescribe(env[script])))
    /\ [][ CallCompletes => Steps(CallLog') = StepsOfDescribe(env[script]) ]_vars

\* a call between two Orgs has completed: one expansion and two validations
C16_Witness ==
    /\ DescribeReturned
    /\ env[script].sourceMedia = "Org"
    /\ env[script].targetMedia = "Org"
    /\ Steps(CallLog) = << << "fetch", "source" >>, << "expand", "source" >>,
                           << "validate", "source" >>, << "fetch", "target" >>,
                           << "validate", "target" >> >>

\* ------------------------------------------------------------------------
\* C17: once a describe() call has returned successfully the descriptor stays
\* Described: isDescribed never becomes false again, and every later describe()
\* call issues no schema fetch, emits no warning and leaves the snapshots, the
\* resolved field list and the query string unchanged.
\* ------------------------------------------------------------------------
\* a step that starts a describe() call
IsDescribeCall == pc = "idle" /\ hist'.describeCalls = hist.describeCalls + 1

C17_DescribedIsPermanent ==
    /\ [][ sourceSObjectDescribe # Undefined => sourceSObjectDescribe' # Undefined ]_vars
    /\ [][ (hist.describeReturns >= 1 /\ IsDescribeCall) =>
              /\ pc' = "idle"
              /\ lastCall' = Returned("describe")
              /\ UNCHANGED << log, sourceSObjectDescribe, targetSObjectDescribe,
                              parsedQuery, query >> ]_vars

\* a second describe() call has returned on a descriptor whose first call
\* fetched, warned and returned
C17_Witness ==
    /\ hist.describeReturns = 2
    /\ sourceSObjectDescribe # Undefined
    /\ targetSObjectDescribe # Undefined
    /\ lastCall = Returned("describe")
    /\ \E e \in Range(log) : e.ev = "warn"
    /\ Cardinality({ i \in DOMAIN log : log[i].ev = "fetch" }) = 2

\* ------------------------------------------------------------------------
\* Several descriptors of one configuration: the descriptor above and its
\* siblings, of which only what setup() does to the registry is kept
\* ------------------------------------------------------------------------
SiblingIds == { "other1", "other2" }

RegistryQueries ==
    { << "SELECT", "Name", "FROM", "Account" >>,
      << "SELECT", "Id", "FROM", "Contact" >>,
      << "SELECT", "FROM", "Account" >> }

SiblingQueries == RegistryQueries \cup { << "SELECT", "Id", "FROM", "Case" >> }

InitRegistry ==
    /\ query \in RegistryQueries
    /\ deleteQuery = << >>
    /\ operation = StrOp("Upsert")
    /\ externalId = "Name"
    /\ deleteOldData = FALSE
    /\ excludedFields = << >>
    /\ isExtraObject = FALSE
    /\ env = [ s \in Scripts |-> [ sourceMedia |-> "Org", targetMedia |-> "Org",
                                   isPersonAccountEnabled |-> FALSE ] ]
    /\ script = "undefined"
    /\ name = ""
    /\ sourceSObjectDescribe = Undefined
    /\ targetSObjectDescribe = Undefined
    /\ originalExternalId = ""
    /\ parsedQuery = Undefined
    /\ parsedDeleteQuery = Undefined
    /\ multiselectPattern = Undefined
    /\ objectsMap = [ s \in Scripts |-> << >> ]
    /\ siblings \in [ SiblingIds -> { [ script |-> "undefined", name |-> "", query |-> q ]
                                      : q \in SiblingQueries } ]
    /\ pc = "idle"
    /\ lastCall = NoCall
    /\ log = << >>
    /\ hist = [ describeCalls |-> 0, setupOk |-> FALSE,
                setupFailed |-> FALSE, describeOk |-> FALSE,
                describeReturns |-> 0 ]

\* setup(script) of a sibling: lines 230-233, the parse of lines 244-249 and the
\* registration of lines 276-277
SetupSibling(d, s) ==
    /\ pc = "idle"
    /\ siblings[d].script = "undefined"
    /\ IF ~isParsable(siblings[d].query)
       THEN /\ siblings' = [ siblings EXCEPT ![d].script = s ]
            /\ UNCHANGED objectsMap
       ELSE LET sObject == _parseQuery(siblings[d].query, Undefined).parsedQuery.sObject
            IN  /\ siblings' = [ siblings EXCEPT ![d].script = s, ![d].name = sObject ]
                /\ objectsMap' = [ objectsMap EXCEPT ![s] = mapSet(@, sObject, d) ]
    /\ UNCHANGED << query, deleteQuery, operation, externalId, deleteOldData, excludedFields,
                    isExtraObject, script, name, sourceSObjectDescribe,
                    targetSObjectDescribe, originalExternalId, parsedQuery,
                    parsedDeleteQuery, multiselectPattern, env, pc, lastCall, log, hist >>

NextRegistry ==
    \/ \E s \in Scripts : Setup(s)
    \/ \E d \in SiblingIds, s \in Scripts : SetupSibling(d, s)
    \/ DescribeAsync
    \/ SourceFetchFailed
    \/ \E kind \in SnapshotKinds : SourceFetched(kind)
    \/ TargetFetchFailed
    \/ \E kind \in SnapshotKinds : TargetFetched(kind)

SpecRegistry == InitRegistry /\ [][NextRegistry]_vars

\* ------------------------------------------------------------------------
\* C18: with several descriptors set up against the same owner in any order,
\* the owner's registry is append-only: each successful setup() adds one entry,
\* and once an entity name maps to a descriptor that entry is never replaced or
\* removed by a later setup() or describe() of any descriptor.
\* ------------------------------------------------------------------------
\* the owner a first setup() call that succeeds in this step registers with
RegisteredWith(s) ==
    \/ script = "undefined" /\ script' = s /\ lastCall' = Returned("setup")
    \/ \E d \in SiblingIds :
          /\ siblings[d].script = "undefined"
          /\ siblings'[d].script = s
          /\ siblings'[d].name # ""

C18_RegistryAppendOnly ==
    [][ \A s \in Scripts :
          /\ \A n \in DOMAIN objectsMap[s] :
                n \in DOMAIN objectsMap'[s] /\ objectsMap'[s][n] = objectsMap[s][n]
          /\ RegisteredWith(s) =>
                Cardinality(DOMAIN objectsMap'[s]) = Cardinality(DOMAIN objectsMap[s]) + 1
      ]_vars

\* ------------------------------------------------------------------------
\* C19: for a descriptor flagged isExtraObject or naming a special entity,
\* validation performs no existence check on either side: whatever the
\* snapshot contains it removes no field from the resolved field list, emits no
\* missing-field warning and raises no missing-external-id error; only the
\* empty-field-list check still applies.
\* ------------------------------------------------------------------------
SkippedValidationOk(expand, describe) ==
    LET input == ValidationInput(expand, describe)
        new == SubSeq(log', Len(log) + 1, Len(log'))
    IN  (parsedQuery # Undefined /\ (isExtraObject \/ isSpecialObject)) =>
          /\ fieldsInQuery' = input
          /\ \A i \in DOMAIN new : new[i].ev # "warn"
          /\ IF input = << >>
             THEN /\ pc' = "idle"
                  /\ lastCall'.op = "describe"
                  /\ lastCall'.error = "CommandInitializationError"
             ELSE pc' = "awaitTarget" \/ lastCall' = Returned("describe")

C19_NoExistenceCheckForExtraOrSpecial ==
    [][ /\ (pc = "awaitSource" /\ sourceSObjectDescribe' # sourceSObjectDescribe) =>
              SkippedValidationOk(TRUE, sourceSObjectDescribe')
        /\ (pc = "awaitTarget" /\ targetSObjectDescribe' # targetSObjectDescribe) =>
              SkippedValidationOk(env[script].sourceMedia = "File",
                                  targetSObjectDescribe') ]_vars

\* a descriptor of the special entity, not flagged extra, has been described
\* against two Orgs whose snapshots lack its external id, which it has kept
C19_Witness ==
    /\ DescribeReturned
    /\ isSpecialObject
    /\ ~isExtraObject
    /\ env[script].sourceMedia = "Org"
    /\ env[script].targetMedia = "Org"
    /\ externalId = "Name"
    /\ "Name" \in Range(fieldsInQuery)
    /\ IsMissing("Name", sourceSObjectDescribe)
    /\ IsMissing("Name", targetSObjectDescribe)
    /\ \A e \in Range(log) : e.ev # "warn"

\* ------------------------------------------------------------------------
\* C20: whenever describe() returns successfully and at least one side is a
\* describable Org, both the source and the target schema snapshot are set;
\* they are one and the same snapshot exactly when one of the two sides is a
\* File, and that snapshot is the one fetched from the Org side.  When both
\* sides are Files, describe() fetches nothing and leaves both snapshots unset.
\* ------------------------------------------------------------------------
OrgSides == { side \in { "source", "target" } :
                env[script][IF side = "source" THEN "sourceMedia" ELSE "targetMedia"] = "Org" }

C20_SnapshotsAfterDescribe ==
    (hist.setupOk /\ DescribeReturned) =>
        IF OrgSides = { }
        THEN /\ sourceSObjectDescribe = Undefined
             /\ targetSObjectDescribe = Undefined
             /\ \A e \in Range(log) : e.ev # "fetch"
        ELSE /\ sourceSObjectDescribe # Undefined
             /\ targetSObjectDescribe # Undefined
             /\ (sourceSObjectDescribe = targetSObjectDescribe) <=> (Cardinality(OrgSides) = 1)
             /\ Cardinality(OrgSides) = 1 => sourceSObjectDescribe.org \in OrgSides

====
